---- MODULE Spec2Model ----
(***************************************************************************)
(* A model of openunmix/model.py: the Separator (chunked, multi-target     *)
(* inference, to_dict, freeze) and the OpenUnmix masking network (layer   *)
(* shape arithmetic, freeze).                                             *)
(*                                                                         *)
(* A tensor is a record [shape, data]: data is the row-major (contiguous)  *)
(* element list, so that reshape keeps data and changes shape, exactly as  *)
(* torch does on a contiguous tensor.  Indices are 0-based as in the       *)
(* source; data is a TLA+ sequence and so 1-based.                         *)
(***************************************************************************)
EXTENDS Integers, Sequences, FiniteSets, TLC

(* ------------------------------ bounds -------------------------------- *)
MaxSamples == 2
MaxChannels == 2
MaxN == 3
MaxChunk == 2
MaxBatch == 2
MaxModel == 1
Slack == 1
MSpan == 8

Names == {"vocals", "drums"}
ModelIds == 0 .. MaxModel

(* --------------------------- tensor helpers --------------------------- *)
RECURSIVE Prod(_)
Prod(shape) == IF shape = <<>> THEN 1 ELSE Head(shape) * Prod(Tail(shape))

Numel(t) == Prod(t.shape)

Stride(shape, d) == Prod(SubSeq(shape, d + 1, Len(shape)))

RECURSIVE RavelTo(_, _, _)
RavelTo(idx, shape, d) ==
    IF d = 0 THEN 0 ELSE RavelTo(idx, shape, d - 1) * shape[d] + idx[d]

\* the flat offset of a multi-index
Ravel(idx, shape) == RavelTo(idx, shape, Len(shape))

At(t, idx) == t.data[Ravel(idx, t.shape) + 1]

NoTensor == [shape |-> <<0>>, data |-> <<>>]

\* torch.nn.functional.pad(audio, (0, pad_last)): zeros appended to the last axis
Pad(t, right) ==
    LET n == Len(t.shape)
        old == t.shape[n]
        new == old + right
    IN  [shape |-> [t.shape EXCEPT ![n] = new],
         data |-> [i \in 1 .. (Len(t.data) \div old) * new |->
                     IF (i - 1) % new < old
                     THEN t.data[((i - 1) \div new) * old + ((i - 1) % new) + 1]
                     ELSE 0]]

\* Tensor.reshape with at most one -1 entry, on a contiguous tensor
Reshape(t, shape) ==
    LET known == Prod([d \in 1 .. Len(shape) |-> IF shape[d] = -1 THEN 1 ELSE shape[d]])
        full == [d \in 1 .. Len(shape) |->
                    IF shape[d] = -1 THEN Numel(t) \div known ELSE shape[d]]
    IN  [shape |-> full, data |-> t.data]

\* t[k]: iteration over the leading axis
Select(t, k) ==
    LET sub == Tail(t.shape)
        n == Prod(sub)
    IN  [shape |-> sub, data |-> SubSeq(t.data, k * n + 1, (k + 1) * n)]

\* torch.zeros(shape)
Zeros(shape) == [shape |-> shape, data |-> [i \in 1 .. Prod(shape) |-> 0]]

\* t[..., : n]
CropLast(t, n) ==
    LET d == Len(t.shape)
        old == t.shape[d]
    IN  [shape |-> [t.shape EXCEPT ![d] = n],
         data |-> [i \in 1 .. (Len(t.data) \div old) * n |->
                     t.data[((i - 1) \div n) * old + ((i - 1) % n) + 1]]]

RECURSIVE DotTo(_, _, _)
DotTo(a, b, d) == IF d = 0 THEN 0 ELSE DotTo(a, b, d - 1) + a[d] * b[d]

\* the sum of the products of the entries of two sequences of one length
Dot(a, b) == DotTo(a, b, Len(a))

\* t.permute(perm).contiguous(): axis d of the result is axis perm[d] of t
\* (perm is written 1-based here)
Permute(t, perm) ==
    LET shape == [d \in 1 .. Len(perm) |-> t.shape[perm[d]]]
        \* the stride in t of the axis that becomes axis d
        from == [d \in 1 .. Len(perm) |-> Stride(t.shape, perm[d])]
        to == [d \in 1 .. Len(perm) |-> Stride(shape, d)]
    IN  [shape |-> shape,
         data |-> [i \in 1 .. Len(t.data) |->
                     t.data[Dot([d \in 1 .. Len(perm) |->
                                   ((i - 1) \div to[d]) % shape[d]], from) + 1]]]

\* torch.cat([torch.unsqueeze(est, dim=0) for est in estimates], dim=0)
RECURSIVE Flatten(_)
Flatten(ts) == IF ts = <<>> THEN <<>> ELSE Head(ts).data \o Flatten(Tail(ts))

Cat(ts) == [shape |-> <<Len(ts)>> \o ts[1].shape, data |-> Flatten(ts)]

(* ------------------------------ state --------------------------------- *)
VARIABLES
    target_models,      \* Separator.target_models: the ModuleDict, in iteration order,
                        \*   a sequence of [name, module] (module = id of the network)
    nsgts,              \* Separator.nsgts: defaultdict(dict), name -> {'nsgt', 'insgt'}
    nb_channels,        \* Separator.nb_channels
    chunk_size_samples, \* Separator.chunk_size_samples
    seq_batch,          \* Separator.seq_batch
    training,           \* nn.Module.training of the Separator's module tree
    requires_grad,      \* Parameter.requires_grad, per masking network and parameter
    frozen,             \* the modules a freeze() call has covered
    op,                 \* the last call and how it ended
    audio,              \* the waveform the caller separates: forward's argument
    pad_last,           \* forward: local pad_last
    audio_segs,         \* forward: local audio_segs
    ests,               \* forward: the tensor returned
    aggregate_dict,     \* to_dict: argument aggregate_dict (a sequence of <<key, targets>>)
    estimates_dict,     \* to_dict: the mapping returned
    ou_nb_bins,         \* OpenUnmix.nb_bins
    ou_nb_channels,     \* OpenUnmix: nb_channels given to the constructor
    ou_training,        \* OpenUnmix: nn.Module.training
    ou_requires_grad,   \* OpenUnmix: requires_grad of its parameters
    ou_frozen,          \* OpenUnmix: freeze() has been called
    ou_op,              \* OpenUnmix: the last call and how it ended
    ou_x,               \* OpenUnmix.forward: shape of the argument
    ou_out              \* OpenUnmix.forward: shape of the tensor returned

sep_vars == <<target_models, nsgts, nb_channels, chunk_size_samples, seq_batch,
              training, requires_grad, frozen, op, audio, pad_last, audio_segs,
              ests, aggregate_dict, estimates_dict>>
ou_vars == <<ou_nb_bins, ou_nb_channels, ou_training, ou_requires_grad, ou_frozen,
             ou_op, ou_x, ou_out>>
vars == <<sep_vars, ou_vars>>

(* ----------------------------- dictionaries --------------------------- *)
EmptyDict == [k \in {} |-> 0]

DictSet(d, k, v) == [x \in (DOMAIN d) \cup {k} |-> IF x = k THEN v ELSE d[x]]

TargetNames(tm) == {tm[j].name : j \in 1 .. Len(tm)}

(* --------------------------- Separator.__init__ ----------------------- *)
\* make_filterbanks(nsgt_base, sample_rate): a matched forward/inverse pair
make_filterbanks(nsgt_base) == [nsgt |-> nsgt_base, insgt |-> nsgt_base]

\* the loop over target_models_nsgt.items(), a sequence of [name, base]
RECURSIVE BuildNsgts(_)
BuildNsgts(items) ==
    IF items = <<>> THEN EmptyDict
    ELSE LET n == Len(items)
             fb == make_filterbanks(items[n].base)
             prev == BuildNsgts(SubSeq(items, 1, n - 1))
             d0 == IF items[n].name \in DOMAIN prev THEN prev[items[n].name] ELSE EmptyDict
             d1 == DictSet(d0, "nsgt", fb.nsgt)
             d2 == DictSet(d1, "insgt", fb.insgt)
         IN  DictSet(prev, items[n].name, d2)

(* --------------------------- Separator.forward ------------------------ *)
\* PadLast with the ceiling taken as floor + 1: a whole block too many when N divides
PadLastAlways(N, sb, chunk) ==
    (N \div (sb * chunk) + 1) * sb * chunk - N

\* chunks_ceil and pad_last.  N / (seq_batch * chunk) is a float64 division and
\* np.ceil of it is exact for all lengths below 2^53, so it is integer ceiling here.
PadLast(N, sb, chunk) ==
    LET chunks_ceil == (N + sb * chunk - 1) \div (sb * chunk)
    IN  chunks_ceil * sb * chunk - N

\* audio_segs: the padded waveform, reshaped
AudioSegs(a, sb, nbc, chunk) ==
    LET padded == Pad(a, PadLast(a.shape[3], sb, chunk))
    IN  Reshape(padded, <<-1, a.shape[1] * sb, nbc, chunk>>)

\* nsgt -> complexnorm -> target_module -> phasemix_sep -> insgt on one segment.
\* The transforms are external; the estimate keeps the segment's shape, and each
\* element records the network and the transform pair that produced it.  Network 0
\* with a matched pair reconstructs its input exactly.
SeparateSegment(target_module, nsgt, insgt, audio_seg) ==
    LET tag == IF target_module = 0 /\ nsgt = insgt THEN 0
               ELSE 1 + target_module + (MaxModel + 1) * (nsgt + 10 * insgt)
    IN  [shape |-> audio_seg.shape,
         data |-> [i \in 1 .. Len(audio_seg.data) |-> audio_seg.data[i] + 1000 * tag]]

\* SetSlot without the index: seg_estimates[...] = y[..., None]
SetSlotAll(seg_estimates, j, y) ==
    LET nb_sources == seg_estimates.shape[Len(seg_estimates.shape)]
    IN  [shape |-> seg_estimates.shape,
         data |-> [i \in 1 .. Len(seg_estimates.data) |->
                     y.data[(i - 1) \div nb_sources + 1]]]

\* seg_estimates[..., j] = y
SetSlot(seg_estimates, j, y) ==
    LET nb_sources == seg_estimates.shape[Len(seg_estimates.shape)]
    IN  [shape |-> seg_estimates.shape,
         data |-> [i \in 1 .. Len(seg_estimates.data) |->
                     IF (i - 1) % nb_sources = j THEN y.data[(i - 1) \div nb_sources + 1]
                     ELSE seg_estimates.data[i]]]

\* TargetEstimate with the transform pair looked up by position, not by name
TargetEstimateFirstPair(tm, ns, j, audio_seg) ==
    SeparateSegment(tm[j + 1].module, ns[tm[1].name]["nsgt"], ns[tm[1].name]["insgt"],
                    audio_seg)

\* the body of the loop over targets, for target j (0-based)
TargetEstimate(tm, ns, j, audio_seg) ==
    LET target_name == tm[j + 1].name
        target_module == tm[j + 1].module
    IN  SeparateSegment(target_module, ns[target_name]["nsgt"],
                        ns[target_name]["insgt"], audio_seg)

RECURSIVE TargetLoop(_, _, _, _, _)
TargetLoop(seg_estimates, j, tm, ns, audio_seg) ==
    IF j = Len(tm) THEN seg_estimates
    ELSE TargetLoop(SetSlot(seg_estimates, j, TargetEstimate(tm, ns, j, audio_seg)),
                    j + 1, tm, ns, audio_seg)

SegEstimates(tm, ns, audio_seg) ==
    TargetLoop(Zeros(audio_seg.shape \o <<Len(tm)>>), 0, tm, ns, audio_seg)

\* EstSegs with the segments concatenated last first
EstSegsReversed(tm, ns, segs, nb_samples, nbc, padded_len) ==
    LET K == segs.shape[1]
        list == [k \in 1 .. K |-> SegEstimates(tm, ns, Select(segs, K - k))]
    IN  Reshape(Cat(list), <<nb_samples, nbc, padded_len, -1>>)

\* est_segs after the cat and the reshape
EstSegs(tm, ns, segs, nb_samples, nbc, padded_len) ==
    LET list == [k \in 1 .. segs.shape[1] |-> SegEstimates(tm, ns, Select(segs, k - 1))]
    IN  Reshape(Cat(list), <<nb_samples, nbc, padded_len, -1>>)

\* Crop that keeps the padding
CropNothing(t, N) == t

\* the crop of the padding
Crop(t, N) == CropLast(t, N)

\* the first target (0-based) whose transform lookup raises KeyError, or -1
FirstMissing(tm, ns) ==
    LET bad == {j \in 0 .. Len(tm) - 1 :
                  \/ tm[j + 1].name \notin DOMAIN ns
                  \/ "nsgt" \notin DOMAIN ns[tm[j + 1].name]
                  \/ "insgt" \notin DOMAIN ns[tm[j + 1].name]}
    IN  IF bad = {} THEN -1 ELSE CHOOSE j \in bad : \A i \in bad : j <= i

\* self.nsgts[target_name] on a defaultdict(dict): a missing key is inserted
NsgtsLookup(ns, target_name) ==
    IF target_name \in DOMAIN ns THEN ns ELSE DictSet(ns, target_name, EmptyDict)

\* the whole of forward: what it returns, its locals, and self.nsgts afterwards
ForwardRun(tm, ns, nbc, chunk, sb, a) ==
    LET nb_samples == a.shape[1]
        N == a.shape[3]
        pl == PadLast(N, sb, chunk)
        segs == AudioSegs(a, sb, nbc, chunk)
        miss == FirstMissing(tm, ns)
    IN  IF miss >= 0
        THEN [raised |-> "KeyError", nsgts |-> NsgtsLookup(ns, tm[miss + 1].name),
              pad_last |-> pl, audio_segs |-> segs, ests |-> NoTensor]
        ELSE [raised |-> "", nsgts |-> ns, pad_last |-> pl, audio_segs |-> segs,
              ests |-> Crop(Permute(EstSegs(tm, ns, segs, nb_samples, nbc, N + pl),
                                    <<1, 4, 2, 3>>), N)]

\* a waveform of shape (S, C, N) whose samples are pairwise different and nonzero
Waveform(S, C, N) ==
    [shape |-> <<S, C, N>>, data |-> [i \in 1 .. S * C * N |-> i]]

(* --------------------------- Separator.to_dict ------------------------ *)
\* estimates[:, k, ...]
TargetSlice(est, k) ==
    LET nb_sources == est.shape[2]
        inner == est.shape[3] * est.shape[4]
    IN  [shape |-> <<est.shape[1], est.shape[3], est.shape[4]>>,
         data |-> [i \in 1 .. est.shape[1] * inner |->
                     est.data[(((i - 1) \div inner) * nb_sources + k) * inner
                              + ((i - 1) % inner) + 1]]]

\* torch.tensor(0.0)
ScalarZero == [shape |-> <<>>, data |-> <<0>>]

\* a + b, where a is a scalar (broadcast) or has the shape of b
Add(a, b) ==
    [shape |-> b.shape,
     data |-> [i \in 1 .. Len(b.data) |->
                 (IF a.shape = <<>> THEN a.data[1] ELSE a.data[i]) + b.data[i]]]

\* the first loop: one slice per target, keyed by its name
PerTargetDict(tm, est) ==
    [name \in TargetNames(tm) |->
        TargetSlice(est, (CHOOSE k \in 1 .. Len(tm) : tm[k].name = name) - 1)]

\* SumTargets with = in place of +: the last target listed wins
RECURSIVE SumTargetsOverwrite(_, _, _)
SumTargetsOverwrite(acc, targets, per_target) ==
    IF targets = <<>> THEN acc
    ELSE SumTargetsOverwrite(per_target[Head(targets)], Tail(targets), per_target)

\* the inner loop over aggregate_dict[key]
RECURSIVE SumTargets(_, _, _)
SumTargets(acc, targets, per_target) ==
    IF targets = <<>> THEN acc
    ELSE SumTargets(Add(acc, per_target[Head(targets)]), Tail(targets), per_target)

NoAggregate == [none |-> TRUE, items |-> <<>>]

\* the whole of to_dict; agg.items is aggregate_dict as a sequence of [key, targets]
ToDictRun(tm, est, agg) ==
    LET per_target == PerTargetDict(tm, est)
        listed == UNION {{agg.items[i].targets[n] : n \in 1 .. Len(agg.items[i].targets)} :
                            i \in 1 .. Len(agg.items)}
    IN  IF agg.none THEN [raised |-> "", value |-> per_target]
        ELSE IF ~(listed \subseteq DOMAIN per_target)
        THEN [raised |-> "KeyError", value |-> EmptyDict]
        ELSE [raised |-> "",
              value |-> [key \in {agg.items[i].key : i \in 1 .. Len(agg.items)} |->
                           LET i == CHOOSE i \in 1 .. Len(agg.items) : agg.items[i].key = key
                           IN  SumTargets(ScalarZero, agg.items[i].targets, per_target)]]

(* ------------------------------ freeze -------------------------------- *)
ParamNames == {"input_mean", "input_scale", "encoder", "decoder"}

\* the module tree of a Separator: itself, complexnorm, the ModuleDict and its networks
Children(m, tm) ==
    IF m = "separator" THEN {"complexnorm", "target_models"}
    ELSE IF m = "target_models" THEN TargetNames(tm)
    ELSE {}

Modules(tm) == {"separator", "complexnorm", "target_models"} \cup TargetNames(tm)

\* m and every module below it (the tree is three levels deep)
Subtree(m, tm) ==
    LET l1 == Children(m, tm)
        l2 == UNION {Children(c, tm) : c \in l1}
    IN  {m} \cup l1 \cup l2

\* FreezeRun that does not descend into the sub-modules
FreezeShallow(m, tm, tr, rg) ==
    [training |-> [x \in DOMAIN tr |-> IF x = m THEN FALSE ELSE tr[x]],
     requires_grad |-> [x \in DOMAIN rg |->
                          IF x = m THEN [p \in ParamNames |-> FALSE] ELSE rg[x]]]

\* freeze() on module m: requires_grad = False on m.parameters(), then m.eval()
FreezeRun(m, tm, tr, rg) ==
    [training |-> [x \in DOMAIN tr |-> IF x \in Subtree(m, tm) THEN FALSE ELSE tr[x]],
     requires_grad |-> [x \in DOMAIN rg |->
                          IF x \in Subtree(m, tm) THEN [p \in ParamNames |-> FALSE]
                          ELSE rg[x]]]

(* --------------------------- OpenUnmix -------------------------------- *)
conv1 == 25
conv2 == 55

\* self.encoder followed by self.decoder
Layers(nbc) ==
    << [kind |-> "Conv3d", cin |-> nbc, cout |-> conv1, kernel |-> <<5, 11, 42>>,
        stride |-> <<1, 1, 3>>, output_padding |-> <<0, 0, 0>>],
       [kind |-> "ReLU"],
       [kind |-> "BatchNorm3d", cin |-> conv1],
       [kind |-> "Conv3d", cin |-> conv1, cout |-> conv2, kernel |-> <<5, 11, 22>>,
        stride |-> <<1, 1, 3>>, output_padding |-> <<0, 0, 0>>],
       [kind |-> "ReLU"],
       [kind |-> "BatchNorm3d", cin |-> conv2],
       [kind |-> "ConvTranspose3d", cin |-> conv2, cout |-> conv1, kernel |-> <<5, 11, 22>>,
        stride |-> <<1, 1, 3>>, output_padding |-> <<0, 0, 2>>],
       [kind |-> "ReLU"],
       [kind |-> "BatchNorm3d", cin |-> conv1],
       [kind |-> "ConvTranspose3d", cin |-> conv1, cout |-> nbc, kernel |-> <<5, 11, 42>>,
        stride |-> <<1, 1, 3>>, output_padding |-> <<0, 0, 2>>],
       [kind |-> "ReLU"] >>

\* the shape one layer returns for an input of shape (S, C, D, H, W); <<>> if it raises
ApplyLayer(layer, shape, train) ==
    IF shape = <<>> THEN <<>>
    ELSE IF layer.kind = "ReLU" THEN shape
    ELSE IF layer.kind = "BatchNorm3d"
    THEN IF shape[2] # layer.cin THEN <<>>
         \* batch statistics need more than one value per channel
         ELSE IF train /\ shape[1] * shape[3] * shape[4] * shape[5] = 1 THEN <<>>
         ELSE shape
    ELSE IF layer.kind = "Conv3d"
    THEN IF shape[2] # layer.cin \/ \E d \in 1 .. 3 : shape[d + 2] < layer.kernel[d]
         THEN <<>>
         ELSE <<shape[1], layer.cout>> \o
              [d \in 1 .. 3 |-> (shape[d + 2] - layer.kernel[d]) \div layer.stride[d] + 1]
    ELSE \* ConvTranspose3d
         IF shape[2] # layer.cin THEN <<>>
         ELSE <<shape[1], layer.cout>> \o
              [d \in 1 .. 3 |-> (shape[d + 2] - 1) * layer.stride[d]
                                + (layer.kernel[d] - 1) + layer.output_padding[d] + 1]

RECURSIVE RunLayers(_, _, _)
RunLayers(layers, shape, train) ==
    IF layers = <<>> THEN shape
    ELSE RunLayers(Tail(layers), ApplyLayer(Head(layers), shape, train), train)

\* the shape OpenUnmix.forward returns for x of shape (S, C, F, T, M); <<>> if it raises
OUForwardShape(nb_bins, nbc, train, x) ==
    LET nb_samples == x[1]
        nb_chan == x[2]
        nb_f_bins == x[3]
        nb_frames == x[4]
        nb_m_bins == x[5]
        \* x + self.input_mean[: self.nb_bins] on (T*M, S, C, F): F broadcasts with nb_bins
        last == IF nb_f_bins = nb_bins \/ nb_bins = 1 THEN nb_f_bins
                ELSE IF nb_f_bins = 1 THEN nb_bins ELSE 0
        \* x.reshape(nb_samples, nb_channels, nb_frames, nb_f_bins, nb_m_bins)
        y == IF last = nb_f_bins
             THEN <<nb_samples, nb_chan, nb_frames, nb_f_bins, nb_m_bins>> ELSE <<>>
        z == RunLayers(Layers(nbc), y, train)
    IN  IF z = <<>> THEN <<>> ELSE <<z[1], z[2], z[4], z[3], z[5]>>

(* ------------------------ constructor arguments ----------------------- *)
\* the sequences without repetition over S, of length at least lo
InjSeqs(S, lo) ==
    {q \in UNION {[1 .. n -> S] : n \in lo .. Cardinality(S)} :
        \A i, j \in 1 .. Len(q) : i # j => q[i] # q[j]}

\* target_models: a dict name -> network, in insertion order
TargetModelArgs ==
    UNION {{[i \in 1 .. Len(q) |-> [name |-> q[i], module |-> ms[i]]] :
               ms \in [1 .. Len(q) -> ModelIds]} : q \in InjSeqs(Names, 1)}

\* target_models_nsgt: a dict name -> transform configuration, in insertion order;
\* the i-th configuration is configuration i
NsgtArgs ==
    {[i \in 1 .. Len(q) |-> [name |-> q[i], base |-> i]] : q \in InjSeqs(Names, 0)}

AllTrue(tm) == [x \in TargetNames(tm) |-> [p \in ParamNames |-> TRUE]]

\* the OpenUnmix fields of a specification that leaves the network alone
OUIdle ==
    /\ ou_nb_bins = 0
    /\ ou_nb_channels = 0
    /\ ou_training = TRUE
    /\ ou_requires_grad = [p \in ParamNames |-> TRUE]
    /\ ou_frozen = FALSE
    /\ ou_op = "init"
    /\ ou_x = <<>>
    /\ ou_out = <<>>

\* the state after Separator(target_models, target_models_nsgt, nb_channels=...,
\* seq_dur=..., seq_batch=...): chunk is int(seq_dur * sample_rate)
SeparatorInit(tm_arg, nsgt_arg, nbc, chunk, sb) ==
    /\ nsgts = BuildNsgts(nsgt_arg)
    /\ nb_channels = nbc
    /\ target_models = tm_arg
    /\ chunk_size_samples = chunk
    /\ seq_batch = sb
    /\ training = [m \in Modules(tm_arg) |-> TRUE]
    /\ requires_grad = AllTrue(tm_arg)
    /\ frozen = {}
    /\ op = "init"
    /\ pad_last = 0
    /\ audio_segs = NoTensor
    /\ ests = NoTensor
    /\ aggregate_dict = NoAggregate
    /\ estimates_dict = EmptyDict

\* Two families of constructor arguments and waveforms.  The first varies the
\* registry (every order of names, every assignment of networks, every order and
\* subset of transform configurations) on one geometry that pads and has two
\* segments; the second varies the geometry and the waveform's shape on a
\* registry of two targets whose pipelines reconstruct their input.
RegistryFamily ==
    {[tm |-> tm_arg, nsgt |-> nsgt_arg, nbc |-> MaxChannels, chunk |-> MaxChunk, sb |-> 1,
      S |-> 1, N |-> MaxChunk + 1] :
        tm_arg \in TargetModelArgs, nsgt_arg \in NsgtArgs}

GeometryRegistries ==
    { [tm |-> <<[name |-> "vocals", module |-> 0], [name |-> "drums", module |-> 0]>>,
       nsgt |-> <<[name |-> "drums", base |-> 1], [name |-> "vocals", base |-> 2]>>] }

\* the sample and channel axes are carried along by every step, so one and the
\* largest size stand for them; chunk size, batch and length take every value
GeometryFamily ==
    {[tm |-> r.tm, nsgt |-> r.nsgt, nbc |-> nbc, chunk |-> chunk, sb |-> sb,
      S |-> S, N |-> N] :
        r \in GeometryRegistries, nbc \in {1, MaxChannels}, chunk \in 1 .. MaxChunk,
        sb \in 1 .. MaxBatch, S \in {1, MaxSamples}, N \in 1 .. MaxN}

Init ==
    /\ \E a \in RegistryFamily \cup GeometryFamily :
          /\ SeparatorInit(a.tm, a.nsgt, a.nbc, a.chunk, a.sb)
          /\ audio = Waveform(a.S, a.nbc, a.N)
    /\ OUIdle

(* ------------------------------ actions ------------------------------- *)
config_vars == <<target_models, nb_channels, chunk_size_samples, seq_batch>>
flag_vars == <<training, requires_grad, frozen>>

\* Separator.forward(audio) on the caller's waveform, of shape (S, nb_channels, N)
Forward ==
    LET r == ForwardRun(target_models, nsgts, nb_channels, chunk_size_samples, seq_batch,
                        audio)
    IN  /\ nsgts' = r.nsgts
        /\ pad_last' = r.pad_last
        /\ audio_segs' = r.audio_segs
        /\ ests' = r.ests
        /\ op' = IF r.raised = "" THEN "forward" ELSE "forward:" \o r.raised
        /\ aggregate_dict' = NoAggregate
        /\ estimates_dict' = EmptyDict
        /\ UNCHANGED <<config_vars, flag_vars, audio, ou_vars>>

\* the aggregate_dict arguments: None, {}, and three groups: one named like a
\* target, one listing a target twice, one listing none
AggregateDicts ==
    { NoAggregate,
      [none |-> FALSE, items |-> <<>>],
      [none |-> FALSE,
       items |-> <<[key |-> "vocals", targets |-> <<"vocals", "drums">>],
                   [key |-> "vocals_and_drums", targets |-> <<"drums", "vocals", "vocals">>],
                   [key |-> "drums", targets |-> <<>>]>>] }

\* Separator.to_dict(estimates, aggregate_dict) on the estimates forward returned
ToDict(agg) ==
    /\ op \in {"forward", "to_dict", "to_dict:KeyError"}
    /\ LET r == ToDictRun(target_models, ests, agg)
       IN  /\ estimates_dict' = r.value
           /\ op' = IF r.raised = "" THEN "to_dict" ELSE "to_dict:" \o r.raised
    /\ aggregate_dict' = agg
    /\ UNCHANGED <<config_vars, nsgts, flag_vars, audio, pad_last, audio_segs, ests, ou_vars>>

\* Separator.freeze()
Freeze ==
    LET r == FreezeRun("separator", target_models, training, requires_grad)
    IN  /\ training' = r.training
        /\ requires_grad' = r.requires_grad
        /\ frozen' = frozen \cup Subtree("separator", target_models)
        /\ UNCHANGED <<config_vars, nsgts, op, audio, pad_last, audio_segs, ests,
                       aggregate_dict, estimates_dict, ou_vars>>

\* OpenUnmix.freeze() on one of the Separator's networks
TargetFreeze(name) ==
    LET r == FreezeRun(name, target_models, training, requires_grad)
    IN  /\ name \in TargetNames(target_models)
        /\ training' = r.training
        /\ requires_grad' = r.requires_grad
        /\ frozen' = frozen \cup Subtree(name, target_models)
        /\ UNCHANGED <<config_vars, nsgts, op, audio, pad_last, audio_segs, ests,
                       aggregate_dict, estimates_dict, ou_vars>>

Next ==
    \/ Forward
    \/ \E agg \in AggregateDicts : ToDict(agg)
    \/ Freeze
    \/ \E name \in Names : TargetFreeze(name)

Spec == Init /\ [][Next]_vars

(* --------------------- OpenUnmix as an object of its own -------------- *)
\* the smallest sizes both convolutions accept: kernels 5, 11 and 42 then 22 at stride 3
MinFrames == 2 * (5 - 1) + 1
MinBins == 2 * (11 - 1) + 1
MinM == 42 + 3 * (22 - 1)

\* the Separator fields of a specification that leaves the Separator alone
SeparatorIdle ==
    /\ SeparatorInit(<<[name |-> "vocals", module |-> 0]>>,
                     <<[name |-> "vocals", base |-> 1]>>, 1, 1, 1)
    /\ audio = Waveform(1, 1, 1)

\* the state after OpenUnmix(nb_bins, M, nb_channels), and the spectrogram shape
\* (S, C, F, T, M) the caller holds
OUInit ==
    /\ SeparatorIdle
    /\ ou_nb_bins \in MinBins .. MinBins + Slack
    /\ ou_nb_channels \in 1 .. MaxChannels
    /\ ou_training = TRUE
    /\ ou_requires_grad = [p \in ParamNames |-> TRUE]
    /\ ou_frozen = FALSE
    /\ ou_op = "init"
    /\ ou_x \in {<<S, C, F, T, M>> :
                    S \in 1 .. MaxSamples, C \in 1 .. MaxChannels,
                    F \in MinBins - 1 .. MinBins + Slack,
                    T \in MinFrames - 1 .. MinFrames + Slack,
                    M \in MinM - 1 .. MinM + MSpan}
    /\ ou_out = <<>>

\* OpenUnmix.forward(x)
OUForward ==
    LET out == OUForwardShape(ou_nb_bins, ou_nb_channels, ou_training, ou_x)
    IN  /\ ou_out' = out
        /\ ou_op' = IF out = <<>> THEN "forward:RuntimeError" ELSE "forward"
        /\ UNCHANGED <<ou_nb_bins, ou_nb_channels, ou_training, ou_requires_grad,
                       ou_frozen, ou_x, sep_vars>>

\* OpenUnmix.freeze()
OUFreeze ==
    /\ ou_requires_grad' = [p \in ParamNames |-> FALSE]
    /\ ou_training' = FALSE
    /\ ou_frozen' = TRUE
    /\ UNCHANGED <<ou_nb_bins, ou_nb_channels, ou_op, ou_x, ou_out, sep_vars>>

OUNext ==
    \/ OUForward
    \/ OUFreeze

SpecNet == OUInit /\ [][OUNext]_vars

(* ------------------------------ properties ---------------------------- *)
AudioS == audio.shape[1]
AudioC == audio.shape[2]
AudioN == audio.shape[3]
NbTargets == Len(target_models)

\* forward has just returned a tensor
FwdDone == op = "forward"

\* the padded waveform the claims speak of: the input, then zeros
PaddedAt(s, c, t) == IF t < AudioN THEN At(audio, <<s, c, t>>) ELSE 0

\* what the pipeline of the j-th registry name (0-based) makes of one sample x
ExpectedElem(j, x) ==
    LET name == target_models[j + 1].name
    IN  SeparateSegment(target_models[j + 1].module, nsgts[name]["nsgt"],
                        nsgts[name]["insgt"], [shape |-> <<1>>, data |-> <<x>>]).data[1]

\* every target's pipeline returns its input segment unchanged
AllPassThrough == \A j \in 0 .. NbTargets - 1 : \A x \in 0 .. 1 : ExpectedElem(j, x) = x

\* C1: forward returns a tensor of shape (S, nb_targets, C, N): the time axis has
\* exactly the N samples of the input, whatever padding was added.
C1_OutputShape ==
    FwdDone =>
        /\ ests.shape = <<AudioS, NbTargets, AudioC, AudioN>>
        /\ Len(ests.data) = AudioS * NbTargets * AudioC * AudioN

C1_Witness ==
    /\ FwdDone
    /\ pad_last > 0
    /\ audio_segs.shape[1] >= 2
    /\ AudioS >= 2

\* C2: N + pad_last is the smallest multiple of seq_batch * chunk_size that is >= N,
\* the padding is zeros on the right only, and the crop removes exactly the pad_last
\* trailing samples of the reassembled estimate.
C2_Padding ==
    FwdDone =>
        LET D == seq_batch * chunk_size_samples
            P == AudioN + pad_last
            whole == Permute(EstSegs(target_models, nsgts, audio_segs, AudioS,
                                     nb_channels, P), <<1, 4, 2, 3>>)
        IN  /\ P % D = 0
            /\ 0 <= pad_last /\ pad_last < D
            /\ (AudioN % D = 0 => pad_last = 0)
            /\ \A m \in 0 .. P : (m % D = 0 /\ m >= AudioN) => m >= P
            /\ Len(audio_segs.data) = AudioS * AudioC * P
            /\ \A s \in 0 .. AudioS - 1, c \in 0 .. AudioC - 1, t \in 0 .. P - 1 :
                  audio_segs.data[Ravel(<<s, c, t>>, <<AudioS, AudioC, P>>) + 1]
                      = PaddedAt(s, c, t)
            /\ whole.shape[4] = P
            /\ ests.shape[4] = P - pad_last
            /\ \A s \in 0 .. AudioS - 1, j \in 0 .. NbTargets - 1,
                  c \in 0 .. AudioC - 1, t \in 0 .. AudioN - 1 :
                  At(ests, <<s, j, c, t>>) = At(whole, <<s, j, c, t>>)

C2_Witness ==
    /\ FwdDone
    /\ pad_last > 0
    /\ seq_batch >= 2
    /\ audio_segs.shape[1] >= 2

\* the per-target mapping has one key per registry name, and the key of the j-th
\* name holds the estimate of that name's network and transform pair
SlotsByName(d) ==
    /\ DOMAIN d = TargetNames(target_models)
    /\ Cardinality(DOMAIN d) = NbTargets
    /\ \A j \in 0 .. NbTargets - 1, s \in 0 .. AudioS - 1,
          c \in 0 .. AudioC - 1, t \in 0 .. AudioN - 1 :
          At(d[target_models[j + 1].name], <<s, c, t>>)
              = ExpectedElem(j, At(audio, <<s, c, t>>))

\* C3: slot j of the output holds the estimate computed with the network and the
\* transform pair of the j-th registry name, and to_dict without aggregate_dict
\* returns exactly the registry names, each mapped to the slot written for it.
C3_TargetOrder ==
    /\ FwdDone =>
          /\ \A j \in 0 .. NbTargets - 1, s \in 0 .. AudioS - 1,
                c \in 0 .. AudioC - 1, t \in 0 .. AudioN - 1 :
                At(ests, <<s, j, c, t>>) = ExpectedElem(j, At(audio, <<s, c, t>>))
          /\ SlotsByName(ToDictRun(target_models, ests, NoAggregate).value)
    /\ (op = "to_dict" /\ aggregate_dict.none) => SlotsByName(estimates_dict)

C3_Witness ==
    /\ op = "to_dict"
    /\ aggregate_dict.none
    /\ NbTargets = 2
    /\ target_models[1].module # target_models[2].module
    /\ nsgts[target_models[1].name]["nsgt"] = 2

\* the sum, from zero, of the elements at (s, c, t) of the slots of the targets listed
RECURSIVE ListedSum(_, _, _, _)
ListedSum(targets, s, c, t) ==
    IF targets = <<>> THEN 0
    ELSE LET k == CHOOSE k \in 1 .. NbTargets : target_models[k].name = Head(targets)
         IN  At(ests, <<s, k - 1, c, t>>) + ListedSum(Tail(targets), s, c, t)

\* C4: to_dict with an aggregate_dict returns exactly the group names as keys, and
\* each group's value is the elementwise sum, from zero, of the slices of the
\* targets listed for it.
C4_Aggregate ==
    (op = "to_dict" /\ ~aggregate_dict.none) =>
        /\ DOMAIN estimates_dict
             = {aggregate_dict.items[i].key : i \in 1 .. Len(aggregate_dict.items)}
        /\ \A i \in 1 .. Len(aggregate_dict.items) :
              LET g == aggregate_dict.items[i]
                  v == estimates_dict[g.key]
              IN  IF g.targets = <<>> THEN v = ScalarZero
                  ELSE /\ v.shape = <<AudioS, AudioC, AudioN>>
                       /\ \A s \in 0 .. AudioS - 1, c \in 0 .. AudioC - 1,
                             t \in 0 .. AudioN - 1 :
                             At(v, <<s, c, t>>) = ListedSum(g.targets, s, c, t)

C4_Witness ==
    /\ op = "to_dict"
    /\ ~aggregate_dict.none
    /\ NbTargets = 2
    /\ target_models[1].module # target_models[2].module
    /\ DOMAIN estimates_dict = {"vocals", "vocals_and_drums", "drums"}
    /\ AudioN > chunk_size_samples

\* C5: once freeze() has covered a module, the module is in eval mode and none of
\* its parameters tracks gradients, whatever forward, to_dict and freeze calls follow.
C5_Frozen ==
    \A m \in frozen :
        /\ ~training[m]
        /\ m \in DOMAIN requires_grad => \A p \in ParamNames : ~requires_grad[m][p]

C5_Witness ==
    /\ frozen = Modules(target_models)
    /\ NbTargets = 2
    /\ op = "to_dict"

\* C6: OpenUnmix.forward returns a tensor of the shape of its input.
C6_SameShape == ou_op = "forward" => ou_out = ou_x

\* C7: when every target's pipeline returns its segment unchanged, the output holds
\* the input at every (sample, target, channel, time): chunking and reassembly keep
\* every sample in its place.
C7_Reassembly ==
    (FwdDone /\ AllPassThrough) =>
        \A s \in 0 .. AudioS - 1, j \in 0 .. NbTargets - 1,
           c \in 0 .. AudioC - 1, t \in 0 .. AudioN - 1 :
           At(ests, <<s, j, c, t>>) = At(audio, <<s, c, t>>)

C7_Witness ==
    /\ FwdDone
    /\ AllPassThrough
    /\ NbTargets = 2
    /\ AudioS >= 2
    /\ AudioC >= 2
    /\ audio_segs.shape[1] >= 2
    /\ pad_last > 0

\* C8: every row of every audio segment holds, for each channel c, chunk_size
\* consecutive times of channel c of one input sample, the same sample and the same
\* time window for all channels of the row.
C8_SegmentsAreTimeSlices ==
    FwdDone =>
        \A k \in 0 .. audio_segs.shape[1] - 1, r \in 0 .. audio_segs.shape[2] - 1 :
            \E s \in 0 .. AudioS - 1, t0 \in 0 .. AudioN + pad_last - chunk_size_samples :
                \A c \in 0 .. AudioC - 1, u \in 0 .. chunk_size_samples - 1 :
                    At(audio_segs, <<k, r, c, u>>) = PaddedAt(s, c, t0 + u)

\* the runs that differ from this one in the network, or in the transform pair, of
\* the i-th target only (i is 1-based)
OtherRuns(i) ==
    {[tm |-> [target_models EXCEPT ![i].module = m], ns |-> nsgts] :
        m \in ModelIds \ {target_models[i].module}}
    \cup {[tm |-> target_models,
           ns |-> [nsgts EXCEPT ![target_models[i].name] = make_filterbanks(3)]]}

\* C9: a run that differs only in the network or transform pair of target i returns
\* the same slice for every other target j.
C9_Independent ==
    FwdDone =>
        \A i \in 1 .. NbTargets : \A o \in OtherRuns(i) :
            LET other == ForwardRun(o.tm, o.ns, nb_channels, chunk_size_samples,
                                    seq_batch, audio).ests
            IN  \A j \in 1 .. NbTargets :
                    j # i => TargetSlice(other, j - 1) = TargetSlice(ests, j - 1)

C9_Witness ==
    /\ FwdDone
    /\ NbTargets = 2
    /\ target_models[1].module # target_models[2].module
    /\ audio_segs.shape[1] >= 2

\* C10: no call adds, removes or replaces an entry of the name-to-network map or of
\* the name-to-transform-pair map.
C10_RegistryImmutable ==
    [][target_models' = target_models /\ nsgts' = nsgts]_vars

====
